---- MODULE Spec2Model ----
(***************************************************************************)
(* Model of the FingerprintSystem component of src/app/page.tsx (the first *)
(* component of the file, lines 1-638): its React state, the three         *)
(* localStorage keys it owns, and its handlers.  A handler that awaits the *)
(* device service is split at each await; the part between two awaits is   *)
(* one action, and it includes the re-render and the "save users" effect   *)
(* (lines 35-39) that React runs after it.  A handler reads the state      *)
(* through the closure of the render in which it was triggered, so every   *)
(* in-flight handler carries the snapshot of `users` and `name` it closed  *)
(* over.                                                                   *)
(*                                                                         *)
(* Environment: the device service answers a capture with ErrorCode 0 only *)
(* together with a non-empty template (section 6.1 of the device contract);*)
(* the clock advances by one tick with every capture round trip; a         *)
(* localStorage write fails exactly while the store is full, which it may  *)
(* be from the start until space is freed.                                 *)
(***************************************************************************)
EXTENDS Integers, Sequences, FiniteSets, TLC

\* ------------------------------------------------------------------ bounds
\* Capture round trips in one behaviour (the clock stops there).
MaxTicks == 2
\* Verification handlers that may be in flight at the same time.
MaxScans == 1
\* Gallery length up to which the enroll trigger is modelled.
MaxUsers == 2

\* --------------------------------------------------------- program constants
\* "Keep only last 50 logs" (lines 233-236, 256-258).
LogCap == 50
\* Acceptance threshold of `bestScore > 100` (line 220).
Threshold == 100

\* ------------------------------------------------------------- JSON values
\* A JavaScript / JSON value is a record tagged by `t`.
Undef == [t |-> "undef"]
Null == [t |-> "null"]
Zero == [t |-> "num"]
Obj == [t |-> "obj"]
Str(s) == [t |-> "str", v |-> s]
Arr(s) == [t |-> "arr", v |-> s]
Cap(c) == [t |-> "cap", v |-> c]
Doc(u, l, d) == [t |-> "doc", users |-> u, lastCaptured |-> l, exportDate |-> d]

\* JavaScript truthiness of a value (`if (x)`, `a && b`).
Truthy(j) == j.t \notin {"undef", "null", "num"}
\* Array.isArray
IsArray(j) == j.t = "arr"

\* What localStorage.getItem returns / what a file holds: no item, a text that
\* JSON.parse rejects, or the JSON text of a value.
Absent == [kind |-> "absent"]
Garbage == [kind |-> "garbage"]
\* JSON.stringify: `undefined` members of an object are left out of the text,
\* so they read back as absent members.
Stringify(j) == [kind |-> "json", val |-> j]
\* JSON.parse throws on a text that is no JSON.
ParseThrows(text) == text.kind # "json"
Parse(text) == text.val

\* ------------------------------------------------------------------ strings
\* A name is a sequence of characters; " " is the only white space used.
RECURSIVE TrimStart(_)
TrimStart(s) == IF s # <<>> /\ Head(s) = " " THEN TrimStart(Tail(s)) ELSE s
RECURSIVE TrimEnd(_)
TrimEnd(s) ==
  IF s # <<>> /\ s[Len(s)] = " " THEN TrimEnd(SubSeq(s, 1, Len(s) - 1)) ELSE s
\* Trim that leaves the string as it is.
NoTrim(s) == s

\* String.prototype.trim
Trim(s) == TrimEnd(TrimStart(s))

\* What the user may type into the name field.
NameInputs == {<<" ">>, <<" ", "b">>}

\* ----------------------------------------------------------------- messages
Msg(tag) == [tag |-> tag, code |-> 0, text |-> ""]
MsgCode(tag, code, text) == [tag |-> tag, code |-> code, text |-> text]

\* getErrorDescription (lines 129-145)
KnownErrors == {51, 52, 53, 54, 55, 56, 57, 58, 59, 60, 61, 63}
ErrorText(code) ==
  CASE code = 51 -> "System file load failure"
    [] code = 52 -> "Sensor chip initialization failed"
    [] code = 53 -> "Device not found"
    [] code = 54 -> "Fingerprint image capture timeout"
    [] code = 55 -> "No device available"
    [] code = 56 -> "Driver load failed"
    [] code = 57 -> "Wrong Image"
    [] code = 58 -> "Lack of bandwidth"
    [] code = 59 -> "Device Busy"
    [] code = 60 -> "Cannot get serial number"
    [] code = 61 -> "Unsupported device"
    [] code = 63 -> "SgiBioSrv tidak berjalan"
    [] OTHER -> "undefined"
\* getErrorDescription without its `|| 'Unknown error'`.
DescriptionFromTable(code) == ErrorText(code)

getErrorDescription(code) ==
  IF code \in KnownErrors THEN ErrorText(code) ELSE "Unknown error"

\* ------------------------------------------------------------------ records
User(id, name, template) ==
  [id |-> id, name |-> name, template |-> template, enrollDate |-> id]
\* Records an earlier session enrolled (ids are clock values of that session).
U1 == User(1, <<"a">>, 1)
U2 == User(2, <<"b">>, 2)
\* A record of another installation's export that carries U1's id.
U1x == User(1, <<"c">>, 3)

CapturedData(tick) == [template |-> tick, image |-> tick, quality |-> 80, nfiq |-> 1]

LogEntry(ts, userName, score, success) ==
  [timestamp |-> ts, userName |-> userName, score |-> score, success |-> success]
\* The log an earlier session left after n rejected verifications.
OldLogs(n) == [i \in 1..n |-> LogEntry(i, Undef, 0, FALSE)]

VARIABLES
  mounted, crashed,
  users, name, message, isCapturing, lastCaptured, storageStatus,
  lsUsers, lsLast, lsLogs, storageFull,
  now,
  enroll, scans

vars == <<mounted, crashed, users, name, message, isCapturing, lastCaptured,
          storageStatus, lsUsers, lsLast, lsLogs, storageFull, now,
          enroll, scans>>

store == <<lsUsers, lsLast, lsLogs>>
env == <<storageFull, now>>

\* ------------------------------------------------------------ localStorage
\* localStorage.setItem(key, text): throws (quota) while the store is full and
\* then leaves the item as it was.
SetItemThrows == storageFull
SetItem(old, text) == IF SetItemThrows THEN old ELSE text

\* saveUsersToStorage (lines 58-68) as the effect of lines 35-39 runs it: `u`
\* and `status` are `users` and `storageStatus` of the render the effect
\* belongs to, `msg` and `ls` the message and the stored gallery so far.
SaveCondition(u, status) == Len(u) > 0 \/ status = "idle"
SaveEffect(u, status, msg, ls) ==
  IF SaveCondition(u, status)
  THEN IF SetItemThrows
       THEN [ls |-> ls, status |-> "error", message |-> Msg("SaveFailed")]
       ELSE [ls |-> Stringify(Arr(u)), status |-> "idle", message |-> msg]
  ELSE [ls |-> ls, status |-> status, message |-> msg]

\* The render after setUsers(value) and the save effect it triggers (lines
\* 35-39).  `status` is storageStatus in that render, `msg` the last
\* setMessage before it, `ls` the stored gallery before the effect.  A value
\* that is no array makes the render throw (`users.map`, line 608): the
\* component is gone and its effects do not run.
Render(value, status, msg, ls) ==
  IF IsArray(value)
  THEN LET e == SaveEffect(value.v, status, msg, ls) IN
       /\ users' = value.v
       /\ lsUsers' = e.ls
       /\ storageStatus' = e.status
       /\ message' = e.message
       /\ UNCHANGED crashed
  ELSE /\ crashed' = TRUE
       /\ lsUsers' = ls
       /\ storageStatus' = status
       /\ message' = msg
       /\ UNCHANGED users

\* The end of every handler step that called setUsers(value).
AfterSetUsers(value, msg, ls) == Render(value, storageStatus, msg, ls)

\* LoadOutcome that does not read the stored gallery.
LoadNothing(stored) ==
  [set |-> FALSE, value |-> Undef, status |-> "idle", message |-> message]

\* loadUsersFromStorage (lines 41-56): what it leaves behind.  `set` tells
\* whether setUsers was called and `value` with what.
LoadOutcome(stored) ==
  IF stored.kind = "absent"
  THEN [set |-> FALSE, value |-> Undef, status |-> "idle", message |-> message]
  ELSE IF ParseThrows(stored)
  THEN [set |-> FALSE, value |-> Undef, status |-> "error",
        message |-> Msg("LoadFailed")]
  ELSE LET parsedUsers == Parse(stored) IN
       IF parsedUsers.t \in {"null", "undef"}
       THEN \* setUsers(null) is queued, then `parsedUsers.length` throws
            [set |-> TRUE, value |-> parsedUsers, status |-> "error",
             message |-> Msg("LoadFailed")]
       ELSE [set |-> TRUE, value |-> parsedUsers, status |-> "idle",
             message |-> Msg("Loaded")]

Idle == [pc |-> "idle"]

Init ==
  /\ mounted = FALSE
  /\ crashed = FALSE
  /\ users = <<>>
  /\ name = <<>>
  /\ message = Msg("")
  /\ isCapturing = FALSE
  /\ lastCaptured = Null
  /\ storageStatus = "idle"
  /\ lsUsers \in {Absent, Garbage, Stringify(Null), Stringify(Obj),
                  Stringify(Arr(<<U1>>)), Stringify(Arr(<<U1, U2>>))}
  /\ lsLast = Absent
  /\ lsLogs \in {Absent, Stringify(Arr(OldLogs(LogCap - 1)))}
  /\ storageFull \in BOOLEAN
  /\ now = LogCap
  /\ enroll = Idle
  /\ scans = [s \in 1..MaxScans |-> Idle]

\* The first render and its two effects (lines 29-39): the load effect, then
\* the save effect of the first render (users = [], storageStatus = 'idle'),
\* then, when setUsers was called, the second render and its save effect.
Mount ==
  /\ ~mounted
  /\ mounted' = TRUE
  /\ LET l == LoadOutcome(lsUsers)
         first == SaveEffect(<<>>, "idle", l.message, lsUsers)
     IN IF ~l.set
        THEN /\ lsUsers' = first.ls
             /\ storageStatus' = first.status
             /\ message' = first.message
             /\ UNCHANGED <<users, crashed>>
        ELSE Render(l.value, first.status, first.message, first.ls)
  /\ UNCHANGED <<name, isCapturing, lastCaptured, lsLast, lsLogs, env,
                 enroll, scans>>

\* The page is reloaded: the component state and every handler in flight are
\* gone, localStorage and the downloaded file stay.
Reload ==
  /\ mounted
  /\ mounted' = FALSE
  /\ crashed' = FALSE
  /\ users' = <<>>
  /\ name' = <<>>
  /\ message' = Msg("")
  /\ isCapturing' = FALSE
  /\ lastCaptured' = Null
  /\ storageStatus' = "idle"
  /\ enroll' = Idle
  /\ scans' = [s \in 1..MaxScans |-> Idle]
  /\ UNCHANGED <<store, env>>

Ready == mounted /\ ~crashed

\* ------------------------------------------------------------ device service
\* What the capture endpoint may answer: a 2xx JSON body with an ErrorCode
\* (0, a code of the table, a code outside it), a non-2xx status, or no
\* answer / a body that is no JSON.
CaptureResponses ==
  {[kind |-> "json", code |-> c] : c \in {0, 54, 99}}
    \cup {[kind |-> "http", code |-> 500], [kind |-> "throw", code |-> 0]}

\* What the comparison endpoint may answer: a JSON body, or no answer / a
\* body that is no JSON.  The device documents scores 0..199.
Scores == {0, 100, 150}
MatchResponses ==
  {[kind |-> "json", ErrorCode |-> 0, MatchingScore |-> m] : m \in Scores}
    \cup {[kind |-> "json", ErrorCode |-> 1, MatchingScore |-> 150],
          [kind |-> "throw", ErrorCode |-> 0, MatchingScore |-> 0]}

\* A capture may start only while the clock has ticks left.
TicksLeft == now < LogCap + MaxTicks

\* captureFingerprint keeping a last capture that is already there.
captureKeepsFirst(resp, tick) ==
  IF resp.kind = "json" /\ resp.code = 0
  THEN [ok |-> TRUE, template |-> tick,
        lastCaptured |-> IF lastCaptured = Null THEN Cap(CapturedData(tick))
                                                ELSE lastCaptured,
        lsLast |-> IF lastCaptured = Null
                   THEN SetItem(lsLast, Stringify(Cap(CapturedData(tick))))
                   ELSE lsLast,
        message |-> Msg("Captured")]
  ELSE IF resp.kind = "json"
  THEN [ok |-> FALSE, template |-> 0, lastCaptured |-> lastCaptured,
        lsLast |-> lsLast,
        message |-> MsgCode("DeviceError", resp.code,
                            getErrorDescription(resp.code))]
  ELSE [ok |-> FALSE, template |-> 0, lastCaptured |-> lastCaptured,
        lsLast |-> lsLast, message |-> MsgCode("ConnError", resp.code, "")]

\* captureFingerprint taking every JSON answer for a success.
captureAnyCode(resp, tick) ==
  IF resp.kind = "json"
  THEN [ok |-> TRUE, template |-> tick,
        lastCaptured |-> Cap(CapturedData(tick)),
        lsLast |-> SetItem(lsLast, Stringify(Cap(CapturedData(tick)))),
        message |-> Msg("Captured")]
  ELSE [ok |-> FALSE, template |-> 0, lastCaptured |-> lastCaptured,
        lsLast |-> lsLast, message |-> MsgCode("ConnError", resp.code, "")]

\* captureFingerprint from its await on (lines 83-126), for answer `resp`
\* arriving at clock value `tick`: the template it returns (`ok` FALSE for
\* null), and what it leaves in lastCaptured, under 'lastCaptured' and in the
\* message.
captureFingerprint(resp, tick) ==
  IF resp.kind = "json" /\ resp.code = 0
  THEN [ok |-> TRUE, template |-> tick,
        lastCaptured |-> Cap(CapturedData(tick)),
        lsLast |-> SetItem(lsLast, Stringify(Cap(CapturedData(tick)))),
        message |-> Msg("Captured")]
  ELSE IF resp.kind = "json"
  THEN [ok |-> FALSE, template |-> 0, lastCaptured |-> lastCaptured,
        lsLast |-> lsLast,
        message |-> MsgCode("DeviceError", resp.code,
                            getErrorDescription(resp.code))]
  ELSE [ok |-> FALSE, template |-> 0, lastCaptured |-> lastCaptured,
        lsLast |-> lsLast, message |-> MsgCode("ConnError", resp.code, "")]

\* The flag released only after a capture that succeeded.
ReleasedOnSuccessOnly(resp) == ~(resp.kind = "json" /\ resp.code = 0)

\* isCapturing after the `finally` of captureFingerprint (lines 124-126),
\* whatever the answer `resp` was.
isCapturingAfter(resp) == FALSE

\* ------------------------------------------------------------------ enroll
\* disabled={isCapturing} of the enroll button (line 471)
EnrollDisabled == isCapturing

\* enrollUser up to its await (lines 147-153, 70-72)
enrollUser ==
  IF Trim(name) = <<>>
  THEN /\ message' = Msg("NameRequired")
       /\ UNCHANGED <<mounted, crashed, users, name, isCapturing, lastCaptured,
                      storageStatus, store, env, enroll, scans>>
  ELSE /\ TicksLeft
       /\ Len(users) < MaxUsers
       /\ isCapturing' = TRUE
       /\ message' = Msg("Capturing")
       /\ enroll' = [pc |-> "capture", users |-> users, name |-> name]
       /\ UNCHANGED <<mounted, crashed, users, name, lastCaptured,
                      storageStatus, store, env, scans>>

EnrollClick ==
  /\ Ready
  /\ ~EnrollDisabled
  /\ enrollUser

\* The record enrollUser builds (lines 155-160) at clock value `tick`.
NewUser(tick, n, template) == User(tick, Trim(n), template)

\* The gallery enrollUser sets (line 162): the `users` of its closure plus the
\* new record.
UpdatedUsers(closure, newUser) == Append(closure, newUser)

\* enrollUser from the answer of its capture on (lines 83-126, 154-175)
EnrollCaptured(resp) ==
  /\ Ready
  /\ enroll.pc = "capture"
  /\ LET tick == now + 1
         c == captureFingerprint(resp, tick)
     IN /\ now' = tick
        /\ isCapturing' = isCapturingAfter(resp)
        /\ lastCaptured' = c.lastCaptured
        /\ lsLast' = c.lsLast
        /\ enroll' = Idle
        /\ IF c.ok
           THEN LET updatedUsers ==
                      UpdatedUsers(enroll.users,
                                   NewUser(tick, enroll.name, c.template))
                IN /\ AfterSetUsers(Arr(updatedUsers),
                                    IF SetItemThrows
                                    THEN Msg("EnrolledNotSaved")
                                    ELSE Msg("Enrolled"),
                                    SetItem(lsUsers,
                                            Stringify(Arr(updatedUsers))))
                   /\ name' = <<>>
           ELSE /\ message' = c.message
                /\ UNCHANGED <<crashed, users, name, storageStatus, lsUsers>>
  /\ UNCHANGED <<mounted, lsLogs, storageFull, scans>>

\* ------------------------------------------------------------------ verify
\* disabled={isCapturing || users.length === 0} of the verify button (line 507)
VerifyDisabled == isCapturing \/ Len(users) = 0

Slots == 1..MaxScans
FreeSlots == {s \in Slots : scans[s].pc = "idle"}
\* The handler takes the first free slot.
FreeSlot == CHOOSE s \in FreeSlots : \A t \in FreeSlots : s <= t

\* verifyFingerprint without its guard.
NoGuard == FALSE

\* `if (users.length === 0)` of verifyFingerprint (line 178)
NoUsersGuard == Len(users) = 0

\* verifyFingerprint up to its first await (lines 177-183, 70-72)
verifyFingerprint ==
  IF NoUsersGuard
  THEN /\ message' = Msg("NoUsers")
       /\ UNCHANGED <<mounted, crashed, users, name, isCapturing, lastCaptured,
                      storageStatus, store, env, enroll, scans>>
  ELSE /\ TicksLeft
       /\ FreeSlots # {}
       /\ isCapturing' = TRUE
       /\ message' = Msg("Capturing")
       /\ scans' = [scans EXCEPT ![FreeSlot] =
                      [pc |-> "capture", users |-> users]]
       /\ UNCHANGED <<mounted, crashed, users, name, lastCaptured,
                      storageStatus, store, env, enroll>>

VerifyClick ==
  /\ Ready
  /\ ~VerifyDisabled
  /\ verifyFingerprint

\* The comparison request for record `i` of the scanned gallery is
\* outstanding; bestMatch / bestScore are the loop's variables (lines
\* 187-188) and `seen` the answers received so far.
Scanning(gallery, template, i, bestMatch, bestScore, seen) ==
  [pc |-> "match", users |-> gallery, template |-> template, idx |-> i,
   bestMatch |-> bestMatch, bestScore |-> bestScore, seen |-> seen]

\* verifyFingerprint from the answer of its capture to its first comparison
\* request (lines 83-126, 184-205)
VerifyCaptured(s, resp) ==
  /\ Ready
  /\ scans[s].pc = "capture"
  /\ LET tick == now + 1
         c == captureFingerprint(resp, tick)
     IN /\ now' = tick
        /\ isCapturing' = isCapturingAfter(resp)
        /\ lastCaptured' = c.lastCaptured
        /\ lsLast' = c.lsLast
        /\ IF c.ok
           THEN /\ message' = Msg("Verifying")
                /\ scans' = [scans EXCEPT ![s] =
                               Scanning(scans[s].users, c.template, 1, Null, 0,
                                        <<>>)]
           ELSE /\ message' = c.message
                /\ scans' = [scans EXCEPT ![s] = Idle]
  /\ UNCHANGED <<mounted, crashed, users, name, storageStatus,
                 lsUsers, lsLogs, storageFull, enroll>>

\* Improves with `>=` for `>`.
ImprovesOrTies(data, bestScore) ==
  data.ErrorCode = 0 /\ data.MatchingScore >= bestScore

\* Improves without its test of ErrorCode.
ImprovesAnyAnswer(data, bestScore) == data.MatchingScore > bestScore

\* `data.ErrorCode === 0 && data.MatchingScore > bestScore` (line 209)
Improves(data, bestScore) ==
  data.ErrorCode = 0 /\ data.MatchingScore > bestScore

\* Accepted with `>=` for `>`.
AcceptedAtThreshold(bestScore, bestMatch) ==
  bestScore >= Threshold /\ Truthy(bestMatch)

\* `bestScore > 100 && bestMatch` (line 220)
Accepted(bestScore, bestMatch) == bestScore > Threshold /\ Truthy(bestMatch)

\* VerificationLog naming the best match of a rejected outcome too.
VerificationLogNamed(ts, bestScore, bestMatch) ==
  LogEntry(ts, IF Truthy(bestMatch) THEN Str(bestMatch.v.name) ELSE Undef,
           bestScore, Accepted(bestScore, bestMatch))

\* The audit entry of an outcome (lines 223-228, 247-251).
VerificationLog(ts, bestScore, bestMatch) ==
  IF Accepted(bestScore, bestMatch)
  THEN LogEntry(ts, Str(bestMatch.v.name), bestScore, TRUE)
  ELSE LogEntry(ts, Undef, bestScore, FALSE)

\* KeepLast keeping the oldest entries.
KeepFirst(logs) == IF Len(logs) > LogCap THEN SubSeq(logs, 1, LogCap) ELSE logs

\* KeepLast with the guard off by one.
KeepLastOffByOne(logs) ==
  IF Len(logs) > LogCap + 1
  THEN SubSeq(logs, Len(logs) - LogCap + 1, Len(logs))
  ELSE logs

\* `existingLogs.splice(0, existingLogs.length - 50)` under its guard (lines
\* 234-236, 256-258)
KeepLast(logs) ==
  IF Len(logs) > LogCap
  THEN SubSeq(logs, Len(logs) - LogCap + 1, Len(logs))
  ELSE logs

\* RecordLog that writes nothing.
RecordNothing(stored, entry) == stored

\* The try block that records an entry (lines 230-238, 253-260): the item
\* 'verificationLogs' afterwards.  Any throw in it is caught and leaves the
\* item as it was.
RecordLog(stored, entry) ==
  LET text == IF stored.kind = "absent" THEN Stringify(Arr(<<>>)) ELSE stored
  IN IF ParseThrows(text) \/ ~IsArray(Parse(text))
     THEN stored
     ELSE SetItem(stored, Stringify(Arr(KeepLast(Append(Parse(text).v, entry)))))

\* The message of an outcome (lines 243, 265).
OutcomeMessage(bestScore, bestMatch) ==
  IF Accepted(bestScore, bestMatch)
  THEN [tag |-> "VerifyOk", code |-> bestScore, text |-> "",
        user |-> bestMatch.v]
  ELSE MsgCode("VerifyRejected", bestScore, "")

\* MatchThrows entered for an answer with a non-zero ErrorCode too.
AbortsOnErrorCode(data) == data.kind = "throw" \/ data.ErrorCode # 0

\* MatchThrows with the catch never entered.
MatchNeverThrows(data) == FALSE

\* The fetch of a comparison request or `response.json()` throws into the
\* catch of lines 213-217.
MatchThrows(data) == data.kind = "throw"

\* verifyFingerprint from the answer of a comparison request on: the next
\* request, or the outcome after the last one (lines 207-266)
MatchResponse(s, data) ==
  /\ Ready
  /\ scans[s].pc = "match"
  /\ LET sc == scans[s]
         user == sc.users[sc.idx]
         better == Improves(data, sc.bestScore)
         bestScore == IF better THEN data.MatchingScore ELSE sc.bestScore
         bestMatch == IF better THEN [t |-> "user", v |-> user]
                                ELSE sc.bestMatch
     IN IF MatchThrows(data)
        THEN /\ message' = MsgCode("MatchError", 0, "")
             /\ scans' = [scans EXCEPT ![s] = Idle]
             /\ UNCHANGED lsLogs
        ELSE IF sc.idx < Len(sc.users)
        THEN /\ scans' = [scans EXCEPT ![s] =
                            Scanning(sc.users, sc.template, sc.idx + 1,
                                     bestMatch, bestScore,
                                     Append(sc.seen, data))]
             /\ UNCHANGED <<message, lsLogs>>
        ELSE /\ lsLogs' = RecordLog(lsLogs,
                                    VerificationLog(now, bestScore, bestMatch))
             /\ message' = OutcomeMessage(bestScore, bestMatch)
             /\ scans' = [scans EXCEPT ![s] = Idle]
  /\ UNCHANGED <<mounted, crashed, users, name, isCapturing, lastCaptured,
                 storageStatus, lsUsers, lsLast, env,
                 enroll>>

\* ------------------------------------------------------------------ delete
\* The filter with `===` for `!==`.
RECURSIVE KeepOnly(_, _)
KeepOnly(gallery, id) ==
  IF gallery = <<>>
  THEN <<>>
  ELSE IF Head(gallery).id = id
  THEN <<Head(gallery)>> \o KeepOnly(Tail(gallery), id)
  ELSE KeepOnly(Tail(gallery), id)

\* `users.filter(u => u.id !== id)` (line 270)
RECURSIVE Without(_, _)
Without(gallery, id) ==
  IF gallery = <<>>
  THEN <<>>
  ELSE IF Head(gallery).id # id
  THEN <<Head(gallery)>> \o Without(Tail(gallery), id)
  ELSE Without(Tail(gallery), id)

\* deleteUser (lines 269-280)
deleteUser(id) ==
  /\ LET updatedUsers == Without(users, id)
     IN AfterSetUsers(Arr(updatedUsers),
                      IF SetItemThrows THEN Msg("DeletedNotSaved")
                                       ELSE Msg("Deleted"),
                      SetItem(lsUsers, Stringify(Arr(updatedUsers))))
  /\ UNCHANGED <<mounted, name, isCapturing, lastCaptured, lsLast, lsLogs, env, enroll, scans>>

\* The delete button of a listed record (lines 608, 615-616).
DeleteClick ==
  /\ Ready
  /\ \E i \in 1..Len(users) : deleteUser(users[i].id)

\* ------------------------------------------------------------------- clear
\* clearAllData once the user has confirmed (lines 282-295); removeItem does
\* not depend on the space left.
clearAllData ==
  /\ lsLast' = Absent
  /\ lsLogs' = Absent
  /\ lastCaptured' = Null
  /\ AfterSetUsers(Arr(<<>>), Msg("Cleared"), Absent)
  /\ UNCHANGED <<mounted, name, isCapturing, env, enroll,
                 scans>>

ClearClick ==
  /\ Ready
  /\ clearAllData

\* ----------------------------------------------------------- export / import
\* The document exportData builds and serializes (lines 299-305).
ExportText(gallery, last, date) == Stringify(Doc(Arr(gallery), last, date))

\* exportData (lines 297-319): the browser downloads ExportText(users,
\* lastCaptured, now).
exportData ==
  /\ message' = Msg("Exported")
  /\ UNCHANGED <<mounted, crashed, users, name, isCapturing, lastCaptured,
                 storageStatus, store, env, enroll,
                 scans>>

ExportClick ==
  /\ Ready
  /\ exportData

\* ImportValid without Array.isArray.
ImportValidTruthy(data) == Truthy(data.users)

\* ImportValid asking for a non-empty array.
ImportValidNonEmpty(data) ==
  Truthy(data.users) /\ IsArray(data.users) /\ Len(data.users.v) > 0

\* `data.users && Array.isArray(data.users)` (line 329)
ImportValid(data) == Truthy(data.users) /\ IsArray(data.users)

\* Files the user may pick besides the downloaded one: no JSON, the JSON
\* `null`, a document without `users`, documents whose `users` is an object or
\* 0, a one-record document with a last capture, and a document two of whose
\* records carry the same id.
Files ==
  {Garbage, Stringify(Null), Stringify(Doc(Undef, Undef, 0)),
   Stringify(Doc(Obj, Null, 0)), Stringify(Doc(Zero, Null, 0)),
   Stringify(Doc(Arr(<<U2>>), Cap(CapturedData(0)), 0)),
   Stringify(Doc(Arr(<<U1, U1x>>), Null, 0))}

\* ImportedUsers appending the document's records to the gallery.
ImportedMerged(data) == Arr(users \o data.users.v)

\* The gallery importData sets and writes (lines 330-331).
ImportedUsers(data) == data.users

\* reader.onload of importData (lines 326-343) for a file of text `text`
importData(text) ==
  /\ IF ParseThrows(text) \/ Parse(text).t # "doc"
     THEN \* JSON.parse throws, or `data.users` of null does
          /\ message' = Msg("ImportFailed")
          /\ UNCHANGED <<crashed, users, lastCaptured, storageStatus, store>>
     ELSE LET data == Parse(text) IN
          IF ~ImportValid(data)
          THEN /\ message' = Msg("InvalidFormat")
               /\ UNCHANGED <<crashed, users, lastCaptured, storageStatus,
                              store>>
          ELSE IF SetItemThrows
          THEN \* setUsers is done, setItem throws into the catch
               /\ AfterSetUsers(ImportedUsers(data), Msg("ImportFailed"),
                                lsUsers)
               /\ UNCHANGED <<lastCaptured, lsLast, lsLogs>>
          ELSE /\ AfterSetUsers(ImportedUsers(data), Msg("Imported"),
                                Stringify(ImportedUsers(data)))
               /\ IF Truthy(data.lastCaptured)
                  THEN /\ lastCaptured' = data.lastCaptured
                       /\ lsLast' = Stringify(data.lastCaptured)
                  ELSE UNCHANGED <<lastCaptured, lsLast>>
               /\ UNCHANGED lsLogs
  /\ UNCHANGED <<mounted, name, isCapturing, env, enroll, scans>>

\* The file just downloaded.  Every handler step that changes users,
\* lastCaptured or the clock sets another message, so while the message is
\* that of exportData the downloaded file is the export of the current state.
Downloaded ==
  IF message.tag = "Exported"
  THEN {ExportText(users, lastCaptured, now)}
  ELSE {}

\* The file input (lines 399-404): one of the files, or the one just
\* downloaded.
ImportFile(text) ==
  /\ Ready
  /\ importData(text)

\* ---------------------------------------------------------------- the form
\* onChange of the name field (line 464)
SetName(n) ==
  /\ Ready
  /\ name # n
  /\ name' = n
  /\ UNCHANGED <<mounted, crashed, users, message, isCapturing, lastCaptured,
                 storageStatus, store, env, enroll, scans>>

\* ------------------------------------------------------------- the store
\* The origin's quota may be used up when the page is opened; it stays so
\* until something else frees space.
StorageFrees ==
  /\ storageFull
  /\ storageFull' = FALSE
  /\ UNCHANGED <<mounted, crashed, users, name, message, isCapturing,
                 lastCaptured, storageStatus, store, now, enroll, scans>>

\* ------------------------------------------------------------ specification
Next ==
  \/ Mount
  \/ Reload
  \/ EnrollClick
  \/ \E resp \in CaptureResponses : EnrollCaptured(resp)
  \/ VerifyClick
  \/ \E s \in Slots, resp \in CaptureResponses : VerifyCaptured(s, resp)
  \/ \E s \in Slots, data \in MatchResponses : MatchResponse(s, data)
  \/ DeleteClick
  \/ ClearClick
  \/ ExportClick
  \/ \E text \in Files \cup Downloaded : ImportFile(text)
  \/ \E n \in NameInputs : SetName(n)
  \/ StorageFrees

Spec == Init /\ [][Next]_vars

\* The device service answers every capture request, or the request fails.
SpecFair ==
  /\ Spec
  /\ WF_vars(\E resp \in CaptureResponses : EnrollCaptured(resp))
  /\ WF_vars(\E s \in Slots, resp \in CaptureResponses : VerifyCaptured(s, resp))

\* The handlers called directly: deleteUser with any id, and verifyFingerprint
\* whatever the gallery holds (the buttons of the page pass deleteUser the id
\* of a listed record only, and offer no verify trigger on an empty gallery).
CallIds == {0} \cup {U1.id, U2.id}

DeleteCall(id) ==
  /\ Ready
  /\ deleteUser(id)

VerifyCall ==
  /\ Ready
  /\ ~isCapturing
  /\ verifyFingerprint

NextApi ==
  \/ Next
  \/ \E id \in CallIds : DeleteCall(id)
  \/ VerifyCall

SpecApi == Init /\ [][NextApi]_vars

\* The verification flow alone, over a stored gallery of three records: the
\* page is opened and the user does nothing but verify.
U3 == User(3, <<"c">>, 3)

InitScan ==
  /\ mounted = FALSE
  /\ crashed = FALSE
  /\ users = <<>>
  /\ name = <<>>
  /\ message = Msg("")
  /\ isCapturing = FALSE
  /\ lastCaptured = Null
  /\ storageStatus = "idle"
  /\ lsUsers = Stringify(Arr(<<U1, U2, U3>>))
  /\ lsLast = Absent
  /\ lsLogs \in {Absent, Stringify(Arr(OldLogs(LogCap - 1)))}
  /\ storageFull = FALSE
  /\ now = LogCap
  /\ enroll = Idle
  /\ scans = [s \in 1..MaxScans |-> Idle]

NextScan ==
  \/ Mount
  \/ VerifyClick
  \/ \E s \in Slots, resp \in CaptureResponses : VerifyCaptured(s, resp)
  \/ \E s \in Slots, data \in MatchResponses : MatchResponse(s, data)

SpecScan == InitScan /\ [][NextScan]_vars

\* ------------------------------------------------------------------ claims
IdsOf(gallery) == {gallery[i].id : i \in 1..Len(gallery)}
\* The gallery a stored text holds (what a reload would show).
GalleryOf(text) ==
  IF text.kind = "json" /\ IsArray(text.val) THEN text.val.v ELSE <<>>
LogOf(text) ==
  IF text.kind = "json" /\ IsArray(text.val) THEN text.val.v ELSE <<>>
InFlight == enroll.pc # "idle" \/ \E s \in Slots : scans[s].pc # "idle"
MaxOf(S) == CHOOSE m \in S : \A x \in S : x <= m
\* The largest MatchingScore among the answers with ErrorCode 0, 0 if none.
BestOf(answers) ==
  MaxOf({0} \cup {answers[i].MatchingScore :
                    i \in {j \in 1..Len(answers) : answers[j].ErrorCode = 0}})
\* This step is handler `s` receiving the answer `data` to its last
\* comparison request.
LastAnswer(s, data) ==
  /\ scans[s].pc = "match"
  /\ scans[s].idx = Len(scans[s].users)
  /\ data.kind = "json"
  /\ MatchResponse(s, data)

\* C1: every enrollment whose capture answered ErrorCode 0 leaves the gallery
\* exactly one record longer than it was immediately before the enrollment
\* completed, whatever ran while the capture was in flight.
C1_EnrollAddsOne ==
  [][(\E resp \in CaptureResponses :
        /\ resp.kind = "json"
        /\ resp.code = 0
        /\ EnrollCaptured(resp))
       => Len(users') = Len(users) + 1]_vars

\* C2: in every reachable state the ids of the gallery's records are pairwise
\* distinct.
C2_IdsDistinct ==
  \A i, j \in 1..Len(users) : i # j => users[i].id # users[j].id

C4_LogBounded ==
  /\ [](Len(LogOf(lsLogs)) <= 50)
  /\ [][(Len(LogOf(lsLogs)) = 50 /\ lsLogs' # lsLogs /\ lsLogs'.kind = "json")
          => /\ Len(LogOf(lsLogs')) = 50
             /\ \A i \in 1..49 : LogOf(lsLogs')[i] = LogOf(lsLogs)[i + 1]
             /\ LogOf(lsLogs')[50].timestamp = now]_vars

\* A log of 50 entries whose oldest entry has been dropped for one of this
\* session.
C4_Witness ==
  /\ Len(LogOf(lsLogs)) = 50
  /\ LogOf(lsLogs)[1].timestamp = 2
  /\ LogOf(lsLogs)[50].timestamp > LogCap

\* C5: a scan that completes reports the largest MatchingScore among the
\* answers with ErrorCode 0 (0 if there is none); an identity it reports is a
\* scanned record whose answer had that score; and the score is in 0..199
\* when every answer's score is.
C5_BestScore ==
  [][\A s \in Slots, data \in MatchResponses :
       LastAnswer(s, data)
         => LET answers == Append(scans[s].seen, data)
                best == BestOf(answers)
            IN /\ message'.code = best
               /\ lsLogs' # lsLogs
                    => LogOf(lsLogs')[Len(LogOf(lsLogs'))].score = best
               /\ message'.tag = "VerifyOk"
                    => \E i \in 1..Len(answers) :
                         /\ answers[i].ErrorCode = 0
                         /\ answers[i].MatchingScore = best
                         /\ message'.user = scans[s].users[i]
               /\ (\A i \in 1..Len(answers) :
                     answers[i].MatchingScore \in 0..199)
                    => best \in 0..199]_vars

\* A scan of two records has reported the second one.
C5_Witness ==
  /\ message.tag = "VerifyOk"
  /\ Len(users) = 2
  /\ message.user = users[2]

\* C6: a scan that completes is reported as accepted, and logged with
\* success = true, exactly when its largest valid score is strictly greater
\* than 100; otherwise it is reported and logged as rejected.
C6_AcceptIffAbove100 ==
  [][\A s \in Slots, data \in MatchResponses :
       LastAnswer(s, data)
         => LET best == BestOf(Append(scans[s].seen, data))
            IN /\ message'.tag = (IF best > 100 THEN "VerifyOk"
                                               ELSE "VerifyRejected")
               /\ lsLogs' # lsLogs
                    => LogOf(lsLogs')[Len(LogOf(lsLogs'))].success
                         = (best > 100)]_vars

\* A scan whose best score is exactly 100 has been rejected.
C6_Witness ==
  /\ message.tag = "VerifyRejected"
  /\ message.code = 100

\* C7: no handler in flight scans an empty gallery; no step taken on an empty
\* gallery starts a verification; and the step that reports "no users"
\* changes nothing but the message.
C7_NoScanOnEmpty ==
  /\ [](\A s \in Slots : scans[s].pc # "idle" => Len(scans[s].users) > 0)
  /\ [][users = <<>>
          => \A s \in Slots : scans[s].pc = "idle" => scans'[s].pc = "idle"]_vars
  /\ [][(message'.tag = "NoUsers" /\ message.tag # "NoUsers")
          => UNCHANGED <<users, lastCaptured, store, isCapturing, now, enroll,
                         scans>>]_vars

\* verifyFingerprint has run on an empty gallery.
C7_Witness ==
  /\ message.tag = "NoUsers"
  /\ users = <<>>
  /\ ~isCapturing
  /\ \A s \in Slots : scans[s].pc = "idle"

\* The files of Files that are no JSON, hold no document, or hold a document
\* whose `users` is missing or no array.
InvalidFiles ==
  {f \in Files : \/ f.kind # "json"
                 \/ f.val.t # "doc"
                 \/ f.val.users.t # "arr"}

\* C8: importing a file that is not parseable, has no `users` or whose
\* `users` is no sequence reports an invalid format and leaves the gallery,
\* the stored gallery and the last capture (in memory and stored) as they
\* were.
C8_InvalidImportRejected ==
  [][\A text \in InvalidFiles :
       ImportFile(text)
         => /\ message'.tag \in {"InvalidFormat", "ImportFailed"}
            /\ UNCHANGED <<users, lsUsers, lastCaptured, lsLast, crashed>>]_vars

\* An invalid file has been rejected while the gallery holds records.
C8_Witness ==
  /\ message.tag \in {"InvalidFormat", "ImportFailed"}
  /\ users # <<>>
  /\ GalleryOf(lsUsers) = users
  /\ ~storageFull

\* C9 as stated: deleteUser with an id no record carries leaves the in-memory
\* gallery and the stored gallery with the same records in the same order.
C9_DeleteAbsentNoOp ==
  [][\A id \in CallIds :
       (id \notin IdsOf(users) /\ DeleteCall(id))
         => /\ users' = users
            /\ GalleryOf(lsUsers') = GalleryOf(lsUsers)]_vars

\* C9 amended: deleteUser with an id no record carries leaves the in-memory
\* gallery as it was; the stored gallery is left as it was when the write
\* fails or when it held the in-memory gallery's records, and otherwise now
\* holds the in-memory gallery.
C9_DeleteAbsentKeepsMemory ==
  [][\A id \in CallIds :
       (id \notin IdsOf(users) /\ DeleteCall(id))
         => /\ users' = users
            /\ (storageFull \/ GalleryOf(lsUsers) = users)
                 => GalleryOf(lsUsers') = GalleryOf(lsUsers)
            /\ ~storageFull => GalleryOf(lsUsers') = users]_vars

\* deleteUser has run on the two-record gallery and removed nothing.
C9_Witness ==
  /\ message.tag = "Deleted"
  /\ users = <<U1, U2>>

\* C10: while a capture or a comparison scan is in flight no enroll, verify,
\* delete, import or clear handler starts.
C10_OneHandlerAtATime ==
  [][InFlight
       => ~(\/ EnrollClick
            \/ VerifyClick
            \/ DeleteClick
            \/ ClearClick
            \/ \E text \in Files \cup Downloaded : ImportFile(text))]_vars

\* C11: when a comparison request throws, the scan ends with that step: the
\* handler has no further request outstanding, the message is the matching
\* error and not an accept / reject outcome, and the audit log is as it was.
C11_AbortOnMatchFailure ==
  [][\A s \in Slots, data \in MatchResponses :
       (data.kind = "throw" /\ MatchResponse(s, data))
         => /\ scans'[s] = Idle
            /\ message'.tag = "MatchError"
            /\ message'.tag \notin {"VerifyOk", "VerifyRejected"}
            /\ UNCHANGED <<lsLogs, users, lastCaptured, lsUsers, lsLast>>]_vars

\* A scan of a two-record gallery has been aborted and left no audit entry.
C11_Witness ==
  /\ message.tag = "MatchError"
  /\ Len(users) = 2
  /\ lsLogs = Absent
  /\ \A s \in Slots : scans[s] = Idle

\* The files of Files that importData accepts.
ValidFiles == (Files \cup Downloaded) \ InvalidFiles

\* The message reports that a write to the store failed.
WriteFailureReported ==
  message'.tag \in {"EnrolledNotSaved", "DeletedNotSaved", "ImportFailed",
                    "SaveFailed"}

\* C12: an enroll, delete, clear or import that runs while the store rejects
\* writes reports the failure and still leaves its result in memory: the
\* gallery it computed and, where it sets one, the last capture.
C12_MemoryKeepsResult ==
  [][/\ \A resp \in CaptureResponses :
          (storageFull /\ resp.kind = "json" /\ resp.code = 0
             /\ EnrollCaptured(resp))
            => /\ users' = UpdatedUsers(enroll.users,
                                        NewUser(now', enroll.name, now'))
               /\ lastCaptured' = Cap(CapturedData(now'))
               /\ WriteFailureReported
     /\ \A i \in 1..Len(users) :
          (storageFull /\ Ready /\ deleteUser(users[i].id))
            => /\ users' = Without(users, users[i].id)
               /\ WriteFailureReported
     /\ (storageFull /\ ClearClick)
          => /\ users' = <<>>
             /\ lastCaptured' = Null
     /\ \A text \in ValidFiles :
          (storageFull /\ ImportFile(text))
            => /\ users' = Parse(text).users.v
               /\ Truthy(Parse(text).lastCaptured)
                    => lastCaptured' = Parse(text).lastCaptured
               /\ WriteFailureReported]_vars

\* The stored gallery is missing, is no JSON, or is JSON but no array.
MissingOrCorrupt(text) == text.kind # "json" \/ ~IsArray(text.val)

\* C13: mounting over a stored gallery that is missing or corrupt leaves the
\* component rendered with an empty gallery, storage status 'error' and a
\* failure message.
C13_CorruptLoadsEmpty ==
  [][(MissingOrCorrupt(lsUsers) /\ Mount)
       => /\ ~crashed'
          /\ users' = <<>>
          /\ storageStatus' = "error"
          /\ message'.tag \in {"LoadFailed", "SaveFailed"}]_vars

\* C14: an import reported as done leaves the gallery, in memory and stored,
\* equal to the document's `users` and nothing else, and, when the document
\* carries a last capture, the last capture in memory and stored equal to it.
C14_ImportOverwrites ==
  [][\A text \in ValidFiles :
       (ImportFile(text) /\ message'.tag = "Imported")
         => LET data == Parse(text) IN
            /\ users' = data.users.v
            /\ lsUsers' = Stringify(data.users)
            /\ GalleryOf(lsUsers') = data.users.v
            /\ Truthy(data.lastCaptured)
                 => /\ lastCaptured' = data.lastCaptured
                    /\ lsLast' = Stringify(data.lastCaptured)]_vars

\* The one-record document with a last capture has been imported over the
\* gallery <<U1>> that an enrollment still in flight closed over.
C14_Witness ==
  /\ message.tag = "Imported"
  /\ users = <<U2>>
  /\ lsUsers = Stringify(Arr(<<U2>>))
  /\ lastCaptured = Cap(CapturedData(0))
  /\ lsLast = Stringify(Cap(CapturedData(0)))
  /\ enroll.pc = "capture"
  /\ enroll.users = <<U1>>

\* The gallery the enrollment in flight sets when its capture answers
\* ErrorCode 0 at the next tick.
PendingEnrollment ==
  UpdatedUsers(enroll'.users, NewUser(now' + 1, enroll'.name, now' + 1))

\* C15: a delete leaves no record with the deleted id in the gallery, and an
\* enrollment that is awaiting its capture while the delete runs does not
\* bring the record back: the gallery it is about to set holds no record
\* with that id.
C15_DeletedStaysAbsent ==
  [][\A i \in 1..Len(users) :
       (Ready /\ deleteUser(users[i].id))
         => /\ users[i].id \notin IdsOf(users')
            /\ enroll'.pc = "capture"
                 => users[i].id \notin IdsOf(PendingEnrollment)]_vars

\* C16: a failed write of the gallery leaves storageStatus 'error' until a
\* later save succeeds, so a state with another status is one in which no
\* write has failed since the last save.  In every such state of the
\* rendered component with no handler in flight the stored gallery is the
\* text of the in-memory gallery; and a mount that neither crashes nor fails
\* to write shows the gallery that was stored and leaves it stored.
C16_GallerySurvivesRestart ==
  /\ []((Ready /\ storageFull) => storageStatus = "error")
  /\ []((Ready /\ ~InFlight /\ storageStatus # "error")
          => /\ lsUsers = Stringify(Arr(users))
             /\ GalleryOf(lsUsers) = users)
  /\ [][(Mount /\ ~crashed' /\ storageStatus' # "error")
          => /\ users' = GalleryOf(lsUsers)
             /\ GalleryOf(lsUsers') = users']_vars

\* The page has been reloaded and shows a gallery that holds a record
\* enrolled before the reload.
C16_Witness ==
  /\ Ready
  /\ ~InFlight
  /\ message.tag = "Loaded"
  /\ storageStatus = "idle"
  /\ users # <<>>
  /\ users[Len(users)].id > LogCap
  /\ GalleryOf(lsUsers) = users

\* The three outcomes of a capture attempt answered by `resp`, read off the
\* state the handler step leaves: the capture result is stored as the last
\* capture; or the message carries the device's code and its description; or
\* the message is the connection error.
CaptureSucceeded == lastCaptured' = Cap(CapturedData(now'))
CaptureDeviceError(resp) ==
  /\ message'.tag = "DeviceError"
  /\ message'.code = resp.code
  /\ message'.text = (CASE resp.code = 54 -> "Fingerprint image capture timeout"
                        [] OTHER -> "Unknown error")
CaptureTransportError == message'.tag = "ConnError"

\* What the answer `resp` has to end in.
ExpectedOutcome(resp) ==
  IF resp.kind = "json" /\ resp.code = 0 THEN "success"
  ELSE IF resp.kind = "json" THEN "device"
  ELSE "transport"

\* The outcome of the step is exactly the expected one; a failed capture
\* leaves the last capture as it was.
OutcomeIs(resp) ==
  /\ ~isCapturing'
  /\ now' = now + 1
  /\ CaptureSucceeded <=> ExpectedOutcome(resp) = "success"
  /\ CaptureDeviceError(resp) <=> ExpectedOutcome(resp) = "device"
  /\ CaptureTransportError <=> ExpectedOutcome(resp) = "transport"
  /\ ExpectedOutcome(resp) # "success" => UNCHANGED <<lastCaptured, lsLast>>

\* C17: a capture attempt of an enrollment or a verification ends in exactly
\* one outcome: success for ErrorCode 0, a device error with the code and its
\* description ('Unknown error' outside the table) for another code, a
\* transport error for a non-2xx status, no answer or a body that is no
\* JSON.  Only on success does the flow go on with the template: the
\* enrollment appends a record carrying it, the verification starts its scan
\* with it; otherwise the handler ends and the gallery is as it was.
C17_CaptureOutcomes ==
  [][/\ \A resp \in CaptureResponses :
          EnrollCaptured(resp)
            => /\ OutcomeIs(resp)
               /\ enroll' = Idle
               /\ IF ExpectedOutcome(resp) = "success"
                  THEN /\ users' # <<>>
                       /\ users'[Len(users')].template = now'
                       /\ users'[Len(users')].id = now'
                  ELSE UNCHANGED <<users, lsUsers>>
     /\ \A s \in Slots, resp \in CaptureResponses :
          VerifyCaptured(s, resp)
            => /\ OutcomeIs(resp)
               /\ IF ExpectedOutcome(resp) = "success"
                  THEN /\ scans'[s].pc = "match"
                       /\ scans'[s].template = now'
                  ELSE scans'[s] = Idle]_vars

\* A capture has ended in a device error with a code outside the table.
C17_Witness ==
  /\ message = MsgCode("DeviceError", 99, "Unknown error")
  /\ ~isCapturing
  /\ ~InFlight

\* The answers that make a capture fail.
FailedCaptures == {resp \in CaptureResponses : ExpectedOutcome(resp) # "success"}

\* C18: a capture request is issued only by the step of an enroll or verify
\* trigger, one per trigger; and the step in which a capture fails ends the
\* handler with no request outstanding (no second capture, no comparison)
\* and leaves the gallery, the audit log and the last capture, in memory and
\* stored, as they were.
C18_FailedCaptureNoEffect ==
  /\ [][(enroll'.pc = "capture" /\ enroll.pc # "capture") => EnrollClick]_vars
  /\ [][\A s \in Slots :
          (scans'[s].pc = "capture" /\ scans[s].pc # "capture")
            => /\ VerifyClick
               /\ \A t \in Slots \ {s} : scans'[t] = scans[t]]_vars
  /\ [][\A resp \in FailedCaptures :
          EnrollCaptured(resp)
            => /\ enroll' = Idle
               /\ UNCHANGED <<scans, users, lsUsers, lsLogs, lastCaptured,
                              lsLast, name>>]_vars
  /\ [][\A s \in Slots, resp \in FailedCaptures :
          VerifyCaptured(s, resp)
            => /\ scans'[s] = Idle
               /\ UNCHANGED <<enroll, users, lsUsers, lsLogs, lastCaptured,
                              lsLast>>]_vars

\* The capture of an enrollment has failed: the name is still in the field,
\* the gallery is the stored one and there is no last capture.
C18_Witness ==
  /\ message.tag = "ConnError"
  /\ ~InFlight
  /\ Trim(name) # <<>>
  /\ users = <<U1>>
  /\ lsUsers = Stringify(Arr(<<U1>>))
  /\ lastCaptured = Null
  /\ lsLast = Absent

\* The requests the device service has not answered yet: the capture request
\* of the enrollment in flight, and the capture or comparison request of
\* every verification in flight.
RequestsOutstanding ==
  (IF enroll.pc = "capture" THEN 1 ELSE 0)
    + Cardinality({s \in Slots : scans[s].pc \in {"capture", "match"}})

\* C19: the device service never has two requests outstanding; and a scan
\* issues its comparison requests one at a time in gallery order, the first
\* when the capture has answered, the next when the previous one has.
C19_OneRequestAtATime ==
  /\ [](RequestsOutstanding <= 1)
  /\ [][\A s \in Slots :
          /\ (scans'[s].pc = "match" /\ scans[s].pc = "capture")
               => scans'[s].idx = 1
          /\ (scans'[s].pc = "match" /\ scans[s].pc = "match"
                /\ scans'[s] # scans[s])
               => /\ scans'[s].idx = scans[s].idx + 1
                  /\ scans'[s].users = scans[s].users
          /\ scans'[s].pc = "match" => scans[s].pc \in {"capture", "match"}]_vars

\* The first answer with ErrorCode 0 whose score is the best of `answers`.
FirstBest(answers) ==
  CHOOSE i \in 1..Len(answers) :
    /\ answers[i].ErrorCode = 0
    /\ answers[i].MatchingScore = BestOf(answers)
    /\ \A j \in 1..(i - 1) :
         ~(answers[j].ErrorCode = 0
             /\ answers[j].MatchingScore = BestOf(answers))

\* C20: an answer whose score equals the best so far leaves the recorded
\* best match as it is, and the identity a scan reports is the first record
\* in gallery order whose answer had the maximum score.
C20_FirstSeenWinsTies ==
  [][\A s \in Slots, data \in MatchResponses :
       (data.kind = "json" /\ scans[s].pc = "match" /\ MatchResponse(s, data))
         => /\ (data.MatchingScore = scans[s].bestScore
                  /\ scans'[s].pc = "match")
                 => /\ scans'[s].bestMatch = scans[s].bestMatch
                    /\ scans'[s].bestScore = scans[s].bestScore
            /\ (scans[s].idx = Len(scans[s].users) /\ message'.tag = "VerifyOk")
                 => LET answers == Append(scans[s].seen, data)
                    IN message'.user = scans[s].users[FirstBest(answers)]]_vars

\* In a scan of three records the first two have both scored 150, and the
\* recorded best match is still the first.
C20_Witness ==
  \E s \in Slots :
    /\ scans[s].pc = "match"
    /\ scans[s].idx = 3
    /\ \A i \in 1..2 : /\ scans[s].seen[i].ErrorCode = 0
                       /\ scans[s].seen[i].MatchingScore = 150
    /\ scans[s].bestScore = 150
    /\ scans[s].bestMatch = [t |-> "user", v |-> scans[s].users[1]]

\* C21: an answer with a non-zero ErrorCode leaves the running best score and
\* best match as they are and does not abort the scan: the next comparison
\* request is issued, or, after the last record, the outcome is reported
\* with the best score reached before the answer.
C21_ErrorCodeCountsAsZero ==
  [][\A s \in Slots, data \in MatchResponses :
       (/\ data.kind = "json"
        /\ data.ErrorCode # 0
        /\ scans[s].pc = "match"
        /\ MatchResponse(s, data))
         => IF scans[s].idx < Len(scans[s].users)
            THEN /\ scans'[s].pc = "match"
                 /\ scans'[s].idx = scans[s].idx + 1
                 /\ scans'[s].bestScore = scans[s].bestScore
                 /\ scans'[s].bestMatch = scans[s].bestMatch
                 /\ UNCHANGED <<message, lsLogs>>
            ELSE /\ scans'[s] = Idle
                 /\ message'.tag \in {"VerifyOk", "VerifyRejected"}
                 /\ message'.code = scans[s].bestScore
                 /\ message'.tag = "VerifyOk"
                      => message'.user = scans[s].bestMatch.v]_vars

\* In a scan of three records the first scored 100, the second answered
\* score 150 with ErrorCode 1, and the third request is outstanding with the
\* best still 100 for the first record.
C21_Witness ==
  \E s \in Slots :
    /\ scans[s].pc = "match"
    /\ scans[s].idx = 3
    /\ scans[s].seen[1].ErrorCode = 0
    /\ scans[s].seen[1].MatchingScore = 100
    /\ scans[s].seen[2].ErrorCode = 1
    /\ scans[s].seen[2].MatchingScore = 150
    /\ scans[s].bestScore = 100
    /\ scans[s].bestMatch = [t |-> "user", v |-> scans[s].users[1]]

\* The last min(Len(entries), 50) of `entries`, in their order.
LastFifty(entries) ==
  LET n == Len(entries)
      k == IF n < 50 THEN n ELSE 50
  IN [i \in 1..k |-> entries[n - k + i]]

\* C22: the stored audit log changes only when clearAllData removes it or
\* when a scan that has completed records its outcome; and each recording
\* made while the store accepts writes leaves the last 50 entries of the
\* previous log followed by the new entry, in that order.  After n
\* recordings the log therefore is the last min(n, 50) entries recorded,
\* oldest first.
C22_FifoRetention ==
  [][/\ lsLogs' # lsLogs
          => \/ (ClearClick /\ lsLogs' = Absent)
             \/ \E s \in Slots, data \in MatchResponses : LastAnswer(s, data)
     /\ \A s \in Slots, data \in MatchResponses :
          (LastAnswer(s, data) /\ ~storageFull)
            => \E entry \in {LogOf(lsLogs')[Len(LogOf(lsLogs'))]} :
                 /\ entry.timestamp = now
                 /\ entry.score = message'.code
                 /\ LogOf(lsLogs') = LastFifty(Append(LogOf(lsLogs), entry))]_vars

\* The log holds 50 entries: the oldest left of the earlier session's 49,
\* and at its end the two outcomes recorded in this session, in the order
\* they were recorded.
C22_Witness ==
  /\ Len(LogOf(lsLogs)) = 50
  /\ LogOf(lsLogs)[1].timestamp = 2
  /\ LogOf(lsLogs)[48].timestamp = 49
  /\ LogOf(lsLogs)[49].timestamp = LogCap + 1
  /\ LogOf(lsLogs)[50].timestamp = LogCap + 2

\* An audit entry is well formed.
WellFormedEntry(entry) ==
  /\ entry.success = (entry.score > 100)
  /\ (entry.userName # Undef) = entry.success

\* C23: every entry of the stored audit log has success = true exactly when
\* its score is above 100 and a name exactly when success is true; and the
\* name an entry is recorded with is the name of the first record of the
\* scanned gallery whose answer had the best score.
C23_EntriesWellFormed ==
  /\ [](\A i \in 1..Len(LogOf(lsLogs)) : WellFormedEntry(LogOf(lsLogs)[i]))
  /\ [][\A s \in Slots, data \in MatchResponses :
          (LastAnswer(s, data) /\ lsLogs' # lsLogs)
            => LET entry == LogOf(lsLogs')[Len(LogOf(lsLogs'))]
                   answers == Append(scans[s].seen, data)
               IN /\ entry.score = BestOf(answers)
                  /\ entry.success
                       => entry.userName
                            = Str(scans[s].users[FirstBest(answers)].name)]_vars

\* The log ends with an accepted outcome that carries the name of U1 and a
\* rejected outcome of score 100 that carries none.
C23_Witness ==
  LET n == Len(LogOf(lsLogs)) IN
  /\ n >= 2
  /\ LogOf(lsLogs)[n - 1] = LogEntry(LogCap + 1, Str(U1.name), 150, TRUE)
  /\ LogOf(lsLogs)[n] = LogEntry(LogCap + 2, Undef, 100, FALSE)

\* The step appends exactly one entry to the stored audit log (and drops the
\* oldest one of 50).
AppendsOneEntry ==
  /\ lsLogs' # lsLogs
  /\ LogOf(lsLogs') # <<>>
  /\ LogOf(lsLogs')
       = LastFifty(Append(LogOf(lsLogs), LogOf(lsLogs')[Len(LogOf(lsLogs'))]))

\* A verification that is guarded out, whose capture fails or whose scan is
\* aborted leaves the audit log as it was and ends.
NoEntryWithoutOutcome ==
  /\ (users = <<>> /\ (VerifyCall \/ VerifyClick))
       => UNCHANGED <<lsLogs, scans, isCapturing, now>>
  /\ \A s \in Slots, resp \in FailedCaptures :
       VerifyCaptured(s, resp) => (scans'[s] = Idle /\ UNCHANGED lsLogs)
  /\ \A s \in Slots, data \in MatchResponses :
       (data.kind = "throw" /\ MatchResponse(s, data))
         => (scans'[s] = Idle /\ UNCHANGED lsLogs)
  /\ \A s \in Slots, data \in MatchResponses :
       (scans[s].pc = "match" /\ scans[s].idx < Len(scans[s].users)
          /\ MatchResponse(s, data))
         => UNCHANGED lsLogs

CaptureAnswered(resp) ==
  \/ EnrollCaptured(resp)
  \/ \E s \in Slots : VerifyCaptured(s, resp)

\* C25 as stated: a successful capture replaces the last capture, in memory
\* and under the 'lastCaptured' key, with the new capture result; a failed
\* capture leaves both as they were.
C25_LastCaptureReplaced ==
  [][\A resp \in CaptureResponses :
       CaptureAnswered(resp)
         => IF ExpectedOutcome(resp) = "success"
            THEN /\ lastCaptured' = Cap(CapturedData(now'))
                 /\ lsLast' = Stringify(Cap(CapturedData(now')))
            ELSE UNCHANGED <<lastCaptured, lsLast>>]_vars

\* C25 amended: a successful capture replaces the last capture in memory
\* with the new capture result, and the value under the 'lastCaptured' key
\* too while the store accepts writes; while it rejects them the key keeps
\* what it held.  A failed capture leaves both as they were.
C25_LastCaptureReplacedInMemory ==
  [][\A resp \in CaptureResponses :
       CaptureAnswered(resp)
         => IF ExpectedOutcome(resp) = "success"
            THEN /\ lastCaptured' = Cap(CapturedData(now'))
                 /\ lsLast' = IF storageFull
                              THEN lsLast
                              ELSE Stringify(Cap(CapturedData(now')))
            ELSE UNCHANGED <<lastCaptured, lsLast>>]_vars

\* The capture of an enrollment succeeded at the first tick, and the capture
\* at the second tick has replaced its result in memory and in the store.
C25_Witness ==
  /\ users # <<>>
  /\ users[Len(users)].id = LogCap + 1
  /\ lastCaptured = Cap(CapturedData(LogCap + 2))
  /\ lsLast = Stringify(Cap(CapturedData(LogCap + 2)))

\* The name field is empty or holds white space only.
BlankName == \A i \in 1..Len(name) : name[i] = " "

\* C26: an enroll trigger on an empty or white-space-only name sets the
\* validation message and nothing else: no capture request is issued, and
\* the gallery, the last capture and the store are as they were.
C26_BlankNameRejected ==
  [][(BlankName /\ EnrollClick)
       => /\ message' = Msg("NameRequired")
          /\ enroll' = Idle
          /\ ~isCapturing'
          /\ UNCHANGED <<users, lastCaptured, lsUsers, lsLast, lsLogs, now,
                         scans, name>>]_vars

\* An enroll trigger on a name of one blank has been rejected.
C26_Witness ==
  /\ message = Msg("NameRequired")
  /\ name = <<" ">>
  /\ enroll = Idle
  /\ ~isCapturing

\* C27: the record an accepted verification names, in its message and in its
\* audit entry, is a record of the gallery at the step that reports it.
C27_AcceptedIsEnrolled ==
  [][\A s \in Slots, data \in MatchResponses :
       (LastAnswer(s, data) /\ message'.tag = "VerifyOk")
         => \E i \in 1..Len(users') : users'[i] = message'.user]_vars

\* C28: a capture sets isCapturing when it starts; the step that handles its
\* answer resets it whatever the answer was; and, the device service
\* answering or failing every request, a set flag is always reset: the flag
\* is false again and again, which is isCapturing ~> ~isCapturing.
C28_FlagReleased ==
  /\ [][(enroll'.pc = "capture" /\ enroll.pc # "capture") => isCapturing']_vars
  /\ [][\A s \in Slots :
          (scans'[s].pc = "capture" /\ scans[s].pc # "capture")
            => isCapturing']_vars
  /\ [][\A resp \in CaptureResponses : CaptureAnswered(resp) => ~isCapturing']_vars
  /\ [](isCapturing => (enroll.pc = "capture"
                          \/ \E s \in Slots : scans[s].pc = "capture"))
  /\ []<>(~isCapturing)

\* A capture answered with status 500 has ended and the triggers are
\* enabled again.
C28_Witness ==
  /\ message = MsgCode("ConnError", 500, "")
  /\ ~isCapturing
  /\ ~EnrollDisabled
  /\ enroll = Idle
  /\ \A s \in Slots : scans[s] = Idle
====
